---- MODULE Spec2Model ----
(***************************************************************************)
(* Model of parquet/type_int64.go: the plain, dictionary and               *)
(* delta-binary-packed decoders of 64-bit integers.                        *)
(*                                                                         *)
(* A Go int64 is a tuple of four 16-bit limbs, least significant first,    *)
(* so that two's-complement arithmetic wraps modulo 2^64 as it does in Go. *)
(* A byte buffer is a sequence of numbers in 0..255; Go's 0-based offset   *)
(* pos names element pos+1 of the sequence.                                *)
(***************************************************************************)
EXTENDS Integers, Sequences, FiniteSets, TLC

\* ------------------------------------------------------------------------
\* Bounds of the model
\* ------------------------------------------------------------------------
\* bytes after the page header
MaxBody == 3
\* bytes after the page header, when a 128 is among them
MaxBadBody == 2
\* bytes after a whole first block
MaxTail == 2
\* slots of one destination
MaxDst == 3
\* the largest total value count of a page header
MaxTotal == 9
\* bytes of a payload with no whole page header
MaxShort == 3
\* values of a plain payload
MaxPlainValues == 2
\* values of a dictionary page
MaxDictCount == 2
\* the largest key the key decoder returns
MaxKey == 2
\* destination slots left unwritten, over all calls
MaxSlack == 2
\* destination slots of a dictionary decoder, over all calls
MaxDictAsked == 3

\* ------------------------------------------------------------------------
\* 64-bit integers
\* ------------------------------------------------------------------------
Limb == 2 ^ 16

Zero64 == <<0, 0, 0, 0>>

\* int64 addition, wrapping modulo 2^64
Add64(a, b) ==
  LET s1 == a[1] + b[1]
      s2 == a[2] + b[2] + (s1 \div Limb)
      s3 == a[3] + b[3] + (s2 \div Limb)
      s4 == a[4] + b[4] + (s3 \div Limb)
  IN  <<s1 % Limb, s2 % Limb, s3 % Limb, s4 % Limb>>

\* bitwise complement ^x
Not64(a) == <<Limb - 1 - a[1], Limb - 1 - a[2], Limb - 1 - a[3], Limb - 1 - a[4]>>

\* -x
Neg64(a) == Add64(Not64(a), <<1, 0, 0, 0>>)

\* logical shift right by one bit
Shr1(a) ==
  << (a[1] \div 2) + (a[2] % 2) * (Limb \div 2),
     (a[2] \div 2) + (a[3] % 2) * (Limb \div 2),
     (a[3] \div 2) + (a[4] % 2) * (Limb \div 2),
     (a[4] \div 2) >>

\* (x << 7) | c for a 7-bit c, modulo 2^64
Shl7Or(a, c) ==
  LET s1 == a[1] * 128 + c
      s2 == a[2] * 128 + (s1 \div Limb)
      s3 == a[3] * 128 + (s2 \div Limb)
      s4 == a[4] * 128 + (s3 \div Limb)
  IN  <<s1 % Limb, s2 % Limb, s3 % Limb, s4 % Limb>>

\* the sign bit of an int64
IsNeg64(a) == a[4] >= Limb \div 2

\* a small integer as an int64
Small64(k) == IF k >= 0 THEN <<k, 0, 0, 0>> ELSE Neg64(<<-k, 0, 0, 0>>)

Min(a, b) == IF a <= b THEN a ELSE b

\* data[pos:] of Go, for 0 <= pos <= len(data)
Suffix(data, pos) == SubSeq(data, pos + 1, Len(data))

\* ------------------------------------------------------------------------
\* External primitives: varints and the 8-value bit unpacker
\* ------------------------------------------------------------------------
MaxVarintLen64 == 10

\* index (1-based) of the first byte below 0x80, or 0 when there is none
RECURSIVE FirstTerminator(_, _)
FirstTerminator(bytes, k) ==
  IF k > Len(bytes) THEN 0
  ELSE IF bytes[k] < 128 THEN k
  ELSE FirstTerminator(bytes, k + 1)

\* the 7-bit groups bytes[1..k], least significant first, as a 64-bit word
RECURSIVE Groups64(_, _)
Groups64(bytes, k) ==
  IF k = 0 THEN Zero64
  ELSE LET hi == Groups64(SubSeq(bytes, 2, Len(bytes)), k - 1)
       IN  Shl7Or(hi, bytes[1] % 128)

\* unsigned LEB128: value and bytes consumed; n = 0 when the buffer ends
\* inside the number, n < 0 when the number does not fit 64 bits
uvarint(bytes) ==
  LET k == FirstTerminator(bytes, 1)
  IN  IF k = 0
        THEN IF Len(bytes) > MaxVarintLen64
               THEN [v |-> Zero64, n |-> -(MaxVarintLen64 + 1)]
               ELSE [v |-> Zero64, n |-> 0]
      ELSE IF k > MaxVarintLen64
        THEN [v |-> Zero64, n |-> -(MaxVarintLen64 + 1)]
      ELSE IF k = MaxVarintLen64 /\ bytes[k] > 1
        THEN [v |-> Zero64, n |-> -k]
      ELSE [v |-> Groups64(bytes, k), n |-> k]

\* varint of a 32-bit value, returned as a number
varInt32(bytes) ==
  LET u == uvarint(bytes)
  IN  IF u.n <= 0 THEN [v |-> 0, n |-> u.n]
      ELSE IF u.v[3] # 0 \/ u.v[4] # 0 \/ u.v[2] >= Limb \div 2
        THEN [v |-> 0, n |-> -1]
      ELSE [v |-> u.v[1] + Limb * u.v[2], n |-> u.n]

\* zig-zag varint of a signed 64-bit value
zigZagVarInt64(bytes) ==
  LET u == uvarint(bytes)
  IN  IF u.n <= 0 THEN [v |-> Zero64, n |-> u.n]
      ELSE IF u.v[1] % 2 = 1 THEN [v |-> Not64(Shr1(u.v)), n |-> u.n]
      ELSE [v |-> Shr1(u.v), n |-> u.n]

\* bit number idx (0-based, least significant bit of the first byte first)
BitAt(bytes, idx) == (bytes[(idx \div 8) + 1] \div (2 ^ (idx % 8))) % 2

\* the number formed by cnt bits starting at bit start
RECURSIVE BitsAt(_, _, _)
BitsAt(bytes, start, cnt) ==
  IF cnt <= 0 THEN 0
  ELSE BitAt(bytes, start) + 2 * BitsAt(bytes, start + 1, cnt - 1)

\* the widths for which the unpacker table has an entry
MaxWidth == 64

\* unpack8Int64FuncByWidth[w](bytes): 8 values of w bits each
unpack8(bytes, w) ==
  [k \in 1..8 |->
     [j \in 1..4 |->
        BitsAt(bytes, (k - 1) * w + 16 * (j - 1), Min(16, w - 16 * (j - 1)))]]

\* ------------------------------------------------------------------------
\* Error values (nil is success; a panic aborts the call)
\* ------------------------------------------------------------------------
Nil == "nil"
Panic == "panic"
errNED == "not enough data"
ErrPlainShort == "int64/plain: not enough bytes to decode an int64 number"
ErrBlockSize == "int64/delta: failed to read block size"
ErrMiniBlocks == "int64/delta: failed to read number of mini blocks"
ErrTotal == "int64/delta: failed to read total value count"
ErrFirst == "delta: failed to read first value"
ErrMinDelta == "int64/delta: failed to read min delta"
ErrWidths == "int64/delta: failed to read all bitwidths of miniblocks"
ErrNotEnough == "int64/delta: not enough data"
ErrNoMoreData == "int64/delta: no more data"
ErrKeys == "dict: key decoder error"

\* a destination slot the call has not written
Untouched == <<>>

\* a destination of length L before the call
NewDst(L) == [k \in 1..L |-> Untouched]

\* ------------------------------------------------------------------------
\* int64DeltaBinaryPackedDecoder
\* ------------------------------------------------------------------------
\* the zero value of the struct
ZeroDelta ==
  [ blockSize |-> 0, miniBlocks |-> 0, miniBlockSize |-> 0, numValues |-> 0,
    minDelta |-> Zero64, miniBlockWidths |-> <<>>,
    pos |-> 0, i |-> 0, value |-> Zero64, miniBlock |-> 0,
    miniBlockWidth |-> 0, unpacker |-> -1, miniBlockPos |-> 0,
    miniBlockValues |-> [k \in 1..8 |-> Zero64] ]

\* a step of a method: the decoder it leaves and the error it returns, if any
Ok(d) == [d |-> d, err |-> Nil]
Fail(d, e) == [d |-> d, err |-> e]

\* lines 131-135: the block size, given the varint v read at d.pos
takeBlockSize(d, v) ==
  IF v.n <= 0 THEN Fail([d EXCEPT !.blockSize = v.v], ErrBlockSize)
  ELSE Ok([d EXCEPT !.blockSize = v.v, !.pos = d.pos + v.n])

\* lines 137-146: the miniblock count, the width table and the miniblock
\* size; the division panics when the count is 0
takeMiniBlocks(d, v) ==
  IF v.n <= 0 THEN Fail([d EXCEPT !.miniBlocks = v.v], ErrMiniBlocks)
  ELSE IF v.v = 0
    THEN Fail([d EXCEPT !.miniBlocks = 0, !.miniBlockWidths = <<>>,
                        !.pos = d.pos + v.n], Panic)
  ELSE Ok([d EXCEPT !.miniBlocks = v.v,
                    !.miniBlockWidths = [k \in 1..v.v |-> 0],
                    !.pos = d.pos + v.n,
                    !.miniBlockSize = d.blockSize \div v.v])

\* lines 148-152: the total value count
takeNumValues(d, v) ==
  IF v.n <= 0 THEN Fail([d EXCEPT !.numValues = v.v], ErrTotal)
  ELSE Ok([d EXCEPT !.numValues = v.v, !.pos = d.pos + v.n])

\* lines 154-158: the first value
takeFirstValue(d, v) ==
  IF v.n <= 0 THEN Fail([d EXCEPT !.value = v.v], ErrFirst)
  ELSE Ok([d EXCEPT !.value = v.v, !.pos = d.pos + v.n])

\* the next field of the page header, unless an earlier one failed
thenMiniBlocks(r, buf) ==
  IF r.err # Nil THEN r ELSE takeMiniBlocks(r.d, varInt32(Suffix(buf, r.d.pos)))
thenNumValues(r, buf) ==
  IF r.err # Nil THEN r ELSE takeNumValues(r.d, varInt32(Suffix(buf, r.d.pos)))
thenFirstValue(r, buf) ==
  IF r.err # Nil THEN r ELSE takeFirstValue(r.d, zigZagVarInt64(Suffix(buf, r.d.pos)))

\* page-header := <block size> <miniblocks per block> <total count> <first value>
readPageHeader(d, buf) ==
  thenFirstValue(
    thenNumValues(
      thenMiniBlocks(takeBlockSize(d, varInt32(Suffix(buf, d.pos))), buf),
      buf),
    buf)

\* line 175: copy(d.miniBlockWidths, src) copies min(len, len) bytes
copyWidths(widths, src) ==
  [k \in 1..Len(widths) |-> IF k <= Len(src) THEN src[k] ELSE widths[k]]

\* lines 175-184: the bit widths, read at d.pos
takeWidths(d, buf) ==
  IF Len(buf) - d.pos < Len(d.miniBlockWidths)
    THEN Fail([d EXCEPT !.miniBlockWidths = copyWidths(@, Suffix(buf, d.pos))],
              ErrWidths)
    ELSE Ok([d EXCEPT !.miniBlockWidths = copyWidths(@, Suffix(buf, d.pos)),
                      !.pos = d.pos + Len(d.miniBlockWidths),
                      !.miniBlock = 0])

\* lines 169-173: the min-delta, given the zig-zag varint v read at d.pos
takeMinDelta(d, v) ==
  IF v.n <= 0 THEN Fail([d EXCEPT !.minDelta = v.v], ErrMinDelta)
  ELSE Ok([d EXCEPT !.minDelta = v.v, !.pos = d.pos + v.n])

thenWidths(r, buf) == IF r.err # Nil THEN r ELSE takeWidths(r.d, buf)

\* block := <min delta> <bit widths of the miniblocks> <miniblocks>
readBlockHeader(d, buf) ==
  IF d.pos > Len(buf) THEN Fail(d, Panic)
  ELSE thenWidths(takeMinDelta(d, zigZagVarInt64(Suffix(buf, d.pos))), buf)

thenBlockHeader(r, buf) == IF r.err # Nil THEN r ELSE readBlockHeader(r.d, buf)

\* init: reset the cursors, read the page header and the first block header
DeltaInit(d, buf) ==
  thenBlockHeader(readPageHeader([d EXCEPT !.pos = 0, !.i = 0], buf), buf)

\* the loop guard without the test against the total value count
LoopCond_NoTotal(d, n, L) == n < L

\* the loop guard that also stops when fewer than two values remain
LoopCond_StopEarly(d, n, L) == n < L /\ d.i + 1 < d.numValues

\* the loop guard of decodeInt64 (line 190)
LoopCond(d, n, L) == n < L /\ d.i < d.numValues

\* the boundary step that never reads a further block header
nextBlock_Never(d, buf) == Ok(d)

\* lines 193-198: read the next block header when the miniblocks are used up
nextBlock(d, buf) ==
  IF d.miniBlock >= d.miniBlocks THEN readBlockHeader(d, buf) ELSE Ok(d)

\* lines 200-203: select the next miniblock; a width beyond the unpacker
\* table panics after the width is stored
takeMiniBlock(d) ==
  IF d.miniBlock >= Len(d.miniBlockWidths) THEN Fail(d, Panic)
  ELSE IF d.miniBlockWidths[d.miniBlock + 1] > MaxWidth
    THEN Fail([d EXCEPT !.miniBlockWidth = d.miniBlockWidths[d.miniBlock + 1]],
              Panic)
  ELSE Ok([d EXCEPT !.miniBlockWidth = d.miniBlockWidths[d.miniBlock + 1],
                    !.unpacker = d.miniBlockWidths[d.miniBlock + 1],
                    !.miniBlockPos = 0,
                    !.miniBlock = d.miniBlock + 1])

thenMiniBlock(r) == IF r.err # Nil THEN r ELSE takeMiniBlock(r.d)

\* lines 192-204: the work at a miniblock boundary; the remainder panics
\* when the miniblock size is 0
selectMiniBlock(d, buf) ==
  IF d.miniBlockSize = 0 THEN Fail(d, Panic)
  ELSE IF d.i % d.miniBlockSize # 0 THEN Ok(d)
  ELSE thenMiniBlock(nextBlock(d, buf))

\* line 212: the group being unpacked completes or exceeds the total
IsTailGroup(d) == d.i + 8 >= d.numValues

\* line 213: the bytes of the current miniblock not consumed by its groups
TailSkip(d) == (d.miniBlockSize \div 8) * d.miniBlockWidth - d.miniBlockPos

\* lines 212-214: skip the rest of the miniblock after the tail group
skipTail(d) ==
  IF IsTailGroup(d) THEN [d EXCEPT !.pos = d.pos + TailSkip(d)] ELSE d

\* lines 205-214: unpack the next group of 8 raw deltas
unpackGroup(d, buf) ==
  IF d.pos + d.miniBlockWidth > Len(buf) THEN Fail(d, ErrNotEnough)
  ELSE Ok(skipTail(
         [d EXCEPT !.miniBlockValues =
                       unpack8(SubSeq(buf, d.pos + 1, d.pos + d.miniBlockWidth),
                               d.unpacker),
                   !.miniBlockPos = d.miniBlockPos + d.miniBlockWidth,
                   !.pos = d.pos + d.miniBlockWidth]))

thenUnpackGroup(r, buf) == IF r.err # Nil THEN r ELSE unpackGroup(r.d, buf)

\* lines 191-215: the work done before a value whose index is a multiple of 8
startGroup(d, buf) ==
  IF d.i % 8 # 0 THEN Ok(d) ELSE thenUnpackGroup(selectMiniBlock(d, buf), buf)

\* the accumulator without the block's min-delta
NextValue_NoMinDelta(d) == Add64(d.value, d.miniBlockValues[(d.i % 8) + 1])

\* line 217: the accumulator after producing the value of index d.i
NextValue(d) ==
  Add64(d.value, Add64(d.miniBlockValues[(d.i % 8) + 1], d.minDelta))

\* the step that accumulates without counting the value
produce_NoCount(d) == [d EXCEPT !.value = NextValue(d)]

\* lines 216-219: write the value, accumulate, count
produce(d) == [d EXCEPT !.value = NextValue(d), !.i = d.i + 1]

\* the end of decodeInt64 without the test for an empty result
ProducedNone_Never(n, L) == FALSE

\* line 222: the call produced nothing
ProducedNone(n, L) == n = 0

\* lines 222-226: the return of decodeInt64 after the loop
finish(d, n, dst) ==
  [d |-> d, dst |-> dst, n |-> n,
   err |-> IF ProducedNone(n, Len(dst)) THEN ErrNoMoreData ELSE Nil]

\* lines 188-226: the loop of decodeInt64 from slot n on, and its return
RECURSIVE deltaLoop(_, _, _, _)
\* one iteration, given what the work before the value left
iterate(g, buf, n, dst) ==
  IF g.err # Nil THEN [d |-> g.d, dst |-> dst, n |-> n, err |-> g.err]
  ELSE deltaLoop(produce(g.d), buf, n + 1, [dst EXCEPT ![n + 1] = g.d.value])

deltaLoop(d, buf, n, dst) ==
  IF ~LoopCond(d, n, Len(dst)) THEN finish(d, n, dst)
  ELSE iterate(startGroup(d, buf), buf, n, dst)

\* int64DeltaBinaryPackedDecoder.decodeInt64 on a destination of length L
DeltaDecodeInt64(d, buf, L) == deltaLoop(d, buf, 0, NewDst(L))

\* ------------------------------------------------------------------------
\* What a decodeInt64 call of the delta decoder did, step by step
\* ------------------------------------------------------------------------
\* one step: its kind e, the produced count i it happened at, and
\*   "header": a = 1 when readBlockHeader returned nil, else 0; b = the cursor
\*             before; c = the miniblock index before
\*   "select": a = the index into the width table; b = the length of the
\*             table; c = the width selected
\*   "unpack": a = the cursor before; b = the width; c = 0
\*   "skip":   a = the cursor at the start of the current miniblock; b = the
\*             cursor after the skip; c = the width
\*   "error":  a truncation or header error returned to the caller
Event(e, i, a, b, c) == [e |-> e, i |-> i, a |-> a, b |-> b, c |-> c]

\* line 192: the produced count is at a miniblock boundary
AtMiniBlockStart(d) == d.miniBlockSize # 0 /\ d.i % d.miniBlockSize = 0

\* lines 193-198: the block header read of this boundary, if there is one
evHeader(d, buf) ==
  IF AtMiniBlockStart(d) /\ d.miniBlock >= d.miniBlocks
    THEN << Event("header", d.i,
                  IF readBlockHeader(d, buf).err = Nil THEN 1 ELSE 0,
                  d.pos, d.miniBlock) >>
    ELSE <<>>

\* line 200: the index into the width table, given what nextBlock left
evSelect(nb) ==
  IF nb.err # Nil THEN <<>>
  ELSE << Event("select", nb.d.i, nb.d.miniBlock, Len(nb.d.miniBlockWidths),
                IF nb.d.miniBlock < Len(nb.d.miniBlockWidths)
                  THEN nb.d.miniBlockWidths[nb.d.miniBlock + 1] ELSE -1) >>

evSelectAt(d, buf) ==
  IF AtMiniBlockStart(d) THEN evSelect(nextBlock(d, buf)) ELSE <<>>

\* lines 209-214: the unpacking of a group and the skip after it, given the
\* decoder s before it and the step u that unpackGroup made
evUnpack(s, u) ==
  IF u.err # Nil THEN <<>>
  ELSE << Event("unpack", s.i, s.pos, s.miniBlockWidth, 0) >> \o
       ( IF IsTailGroup(s)
           THEN << Event("skip", s.i, s.pos - s.miniBlockPos, u.d.pos,
                         s.miniBlockWidth) >>
           ELSE <<>> )

evUnpackAt(r, buf) ==
  IF r.err # Nil THEN <<>> ELSE evUnpack(r.d, unpackGroup(r.d, buf))

\* lines 191-215: the steps made before a value whose index is a multiple of 8
groupEvents(d, buf) ==
  IF d.i % 8 # 0 THEN <<>>
  ELSE evHeader(d, buf) \o evSelectAt(d, buf)
         \o evUnpackAt(selectMiniBlock(d, buf), buf)

\* lines 190-221: the steps of the loop of decodeInt64 from slot n on
RECURSIVE deltaEvents(_, _, _, _)
moreEvents(g, buf, n, L) ==
  IF g.err # Nil THEN <<>> ELSE deltaEvents(produce(g.d), buf, n + 1, L)

deltaEvents(d, buf, n, L) ==
  IF ~LoopCond(d, n, L) THEN <<>>
  ELSE groupEvents(d, buf) \o moreEvents(startGroup(d, buf), buf, n, L)

\* lines 113-118: the block header read of init, made once the page header
\* has been read
evInitHeader(r, buf) ==
  IF r.err # Nil THEN <<>>
  ELSE << Event("header", r.d.i,
                IF readBlockHeader(r.d, buf).err = Nil THEN 1 ELSE 0,
                r.d.pos, r.d.miniBlock) >>

evInit(d, buf) ==
  evInitHeader(readPageHeader([d EXCEPT !.pos = 0, !.i = 0], buf), buf)

\* the errors of a block header or a group cut short
TruncationErrors == {ErrMinDelta, ErrWidths, ErrNotEnough}

\* lines 196, 207: the call returned one of them
evError(d, err) ==
  IF err \in TruncationErrors THEN << Event("error", d.i, 0, 0, 0) >> ELSE <<>>

\* ------------------------------------------------------------------------
\* int64PlainDecoder
\* ------------------------------------------------------------------------
ZeroPlain == [pos |-> 0]

\* int64PlainDecoder.init
PlainInit(p, buf) == [p |-> [p EXCEPT !.pos = 0], err |-> Nil]

\* the 8 bytes read most significant first
bigEndianUint64(b) ==
  << b[8] + 256 * b[7], b[6] + 256 * b[5],
     b[4] + 256 * b[3], b[2] + 256 * b[1] >>

\* binary.LittleEndian.Uint64 of the first 8 bytes, converted to int64
littleEndianUint64(b) ==
  << b[1] + 256 * b[2], b[3] + 256 * b[4],
     b[5] + 256 * b[6], b[7] + 256 * b[8] >>

\* the end test that misses a cursor exactly at the end
PlainAtEnd_Strict(pos, len) == pos > len

\* line 47: the cursor is at or past the end of the buffer
PlainAtEnd(pos, len) == pos >= len

\* line 50: fewer than 8 bytes are left
PlainShort(pos, len) == pos + 8 > len

\* line 54: the cursor after one value
PlainAdvance(pos) == pos + 8

\* lines 46-56: the loop of decodeInt64 from slot n on
RECURSIVE plainLoop(_, _, _, _)
plainLoop(p, buf, n, dst) ==
  IF ~(n < Len(dst)) THEN [p |-> p, dst |-> dst, n |-> n, err |-> Nil]
  ELSE IF PlainAtEnd(p.pos, Len(buf))
    THEN [p |-> p, dst |-> dst, n |-> n, err |-> errNED]
  ELSE IF PlainShort(p.pos, Len(buf))
    THEN [p |-> p, dst |-> dst, n |-> n, err |-> ErrPlainShort]
  ELSE plainLoop([p EXCEPT !.pos = PlainAdvance(p.pos)], buf, n + 1,
                 [dst EXCEPT ![n + 1] = littleEndianUint64(Suffix(buf, p.pos))])

\* int64PlainDecoder.decodeInt64 on a destination of length L
PlainDecodeInt64(p, buf, L) == plainLoop(p, buf, 0, NewDst(L))

\* the plain layout of a sequence of int64 values: 8 bytes each, little endian
EncodeWord(v) ==
  << v[1] % 256, v[1] \div 256, v[2] % 256, v[2] \div 256,
     v[3] % 256, v[3] \div 256, v[4] % 256, v[4] \div 256 >>

RECURSIVE EncodePlain(_)
EncodePlain(vs) ==
  IF vs = <<>> THEN <<>> ELSE EncodeWord(Head(vs)) \o EncodePlain(Tail(vs))

\* ------------------------------------------------------------------------
\* int64DictDecoder
\* ------------------------------------------------------------------------
ZeroDict == [numValues |-> 0, values |-> <<>>]

\* dictDecoder.initValues: fill the table from the plain-encoded dictionary
dictInitValues(values, dictData) ==
  LET r == plainLoop(ZeroPlain, dictData, 0, values)
  IN  [values |-> r.dst, err |-> r.err]

\* int64DictDecoder.initValues
DictInitValues(dd, dictData, count) ==
  LET t == dictInitValues([k \in 1..count |-> Zero64], dictData)
  IN  [dd |-> [numValues |-> count, values |-> t.values], err |-> t.err]

\* dictDecoder.decodeKeys(n): an error, or n non-negative keys
DecodeKeysResults(n) ==
  {[keys |-> <<>>, err |-> ErrKeys]} \cup
  {[keys |-> ks, err |-> Nil] : ks \in [1..n -> 0..MaxKey]}

\* line 81: the table lookup; an index outside the table aborts the call
RECURSIVE dictLoop(_, _, _, _)
dictLoop(dd, keys, n, dst) ==
  IF n >= Len(keys) THEN [dd |-> dd, dst |-> dst, n |-> n, err |-> Nil]
  ELSE IF keys[n + 1] >= Len(dd.values) \/ n >= Len(dst)
    THEN [dd |-> dd, dst |-> dst, n |-> n, err |-> Panic]
  ELSE dictLoop(dd, keys, n + 1, [dst EXCEPT ![n + 1] = dd.values[keys[n + 1] + 1]])

\* decodeInt64 without the test of the key decoder's error
DictDecodeInt64_IgnoreErr(dd, kr, L) == dictLoop(dd, kr.keys, 0, NewDst(L))

\* int64DictDecoder.decodeInt64 given the key decoder's result kr
DictDecodeInt64(dd, kr, L) ==
  IF kr.err # Nil THEN [dd |-> dd, dst |-> NewDst(L), n |-> 0, err |-> kr.err]
  ELSE dictLoop(dd, kr.keys, 0, NewDst(L))

\* ------------------------------------------------------------------------
\* decodeInt64(d, dst): the dispatch on the shape of the destination
\* ------------------------------------------------------------------------
\* []int64, []interface{}, and anything else
DstShapes == {"typed", "dynamic", "invalid"}

ErrInvalidArgument == "invalid argument"

\* line 18: the temporary buffer is zero-filled, so the slots the decoder did
\* not write hold 0 when they are copied
Boxed(b) == [k \in 1..Len(b) |-> IF b[k] = Untouched THEN Zero64 ELSE b[k]]

\* lines 14-26: the destination after the call, given what the decoder's
\* decodeInt64 did to the slice r.dst it was handed; a panic of the decoder
\* leaves before the copy of lines 20-22
dispatchDst(shape, r, L) ==
  IF shape = "typed" THEN r.dst
  ELSE IF shape = "dynamic"
    THEN IF r.err = Panic THEN NewDst(L) ELSE Boxed(r.dst)
  ELSE NewDst(L)

\* lines 16, 23, 25: what the call returns
dispatchErr(shape, r) == IF shape = "invalid" THEN Panic ELSE r.err

\* the number of values the decoder produced in the call
dispatchN(shape, r) == IF shape = "invalid" THEN 0 ELSE r.n

\* ------------------------------------------------------------------------
\* The delta-binary-packed layout, read off the payload by value index
\* ------------------------------------------------------------------------
\* the four fields of the page header and the offset of the first block
RefHeader(buf) ==
  LET a == varInt32(buf)
      b == varInt32(Suffix(buf, a.n))
      c == varInt32(Suffix(buf, a.n + b.n))
      f == zigZagVarInt64(Suffix(buf, a.n + b.n + c.n))
  IN  IF a.n <= 0 \/ b.n <= 0 \/ c.n <= 0 \/ f.n <= 0
        THEN [ok |-> FALSE, bs |-> 0, mb |-> 0, total |-> 0, first |-> Zero64,
              len |-> 0]
        ELSE [ok |-> TRUE, bs |-> a.v, mb |-> b.v, total |-> c.v, first |-> f.v,
              len |-> a.n + b.n + c.n + f.n]

\* the block size is a whole number of miniblocks of whole 8-value groups
ValidLayout(h) ==
  /\ h.ok
  /\ h.mb >= 1
  /\ h.bs % h.mb = 0
  /\ h.bs \div h.mb >= 8
  /\ (h.bs \div h.mb) % 8 = 0

\* the number of 8-value groups that hold the value indices 0..total-1
GroupCount(h) == (h.total + 7) \div 8

\* Walk the groups g, g+1, ... in stream order.  cur.next is the offset of
\* the first byte not yet laid out, cur.md and cur.wOff the min-delta and the
\* offset of the widths of the current block, cur.acc the groups found so
\* far.  The walk ends at the first group whose block header or bytes are
\* missing or whose width has no unpacker.
RECURSIVE RefWalk(_, _, _, _)
RefWalk(buf, h, g, cur) ==
  IF g >= GroupCount(h) THEN cur.acc
  ELSE
  LET i   == 8 * g
      new == i % h.bs = 0
      md  == zigZagVarInt64(Suffix(buf, cur.next))
      hOK == ~new \/ (md.n > 0 /\ cur.next + md.n + h.mb <= Len(buf))
  IN  IF ~hOK THEN cur.acc
      ELSE
  LET c1 == IF new
              THEN [cur EXCEPT !.md = md.v, !.wOff = cur.next + md.n,
                               !.next = cur.next + md.n + h.mb]
              ELSE cur
      m  == (i % h.bs) \div (h.bs \div h.mb)
      w  == buf[c1.wOff + m + 1]
  IN  IF w > MaxWidth \/ c1.next + w > Len(buf) THEN cur.acc
      ELSE RefWalk(buf, h, g + 1,
                   [c1 EXCEPT !.next = c1.next + w,
                              !.acc = Append(c1.acc,
                                        [off |-> c1.next, w |-> w, md |-> c1.md])])

\* the groups of the payload that are laid out whole, in stream order
RefGroups(buf) ==
  LET h == RefHeader(buf)
  IN  IF ~ValidLayout(h) THEN <<>>
      ELSE RefWalk(buf, h, 0, [next |-> h.len, md |-> Zero64, wOff |-> 0, acc |-> <<>>])

\* the raw delta stored for value index j (0-based) in group gr
RefDelta(buf, gr, j) ==
  unpack8(SubSeq(buf, gr.off + 1, gr.off + gr.w), gr.w)[(j % 8) + 1]

\* every block header and every group of the indices 0..total-1 is present,
\* given the groups gs that are laid out whole
WellFormed(buf, gs) ==
  /\ ValidLayout(RefHeader(buf))
  /\ Len(gs) = GroupCount(RefHeader(buf))

\* the number of written slots of a destination
Written(t) == Cardinality({k \in 1..Len(t) : t[k] # Untouched})

\* the written slots of a destination are exactly its first m slots
WrittenPrefix(t, m) == \A k \in 1..Len(t) : (t[k] # Untouched) <=> (k <= m)

\* ------------------------------------------------------------------------
\* Inputs
\* ------------------------------------------------------------------------
SeqsUpTo(S, n) == UNION {[1..k -> S] : k \in 0..n}

\* <block size, miniblocks per block> of the page headers tried with every
\* total: one or two miniblocks of 8 values, one miniblock of 16
Layouts == {<<8, 1>>, <<16, 1>>, <<16, 2>>}

\* total value counts of the page headers tried
Totals == {0, 5, 8, MaxTotal}

\* headers whose miniblock size is not a multiple of 8: 4 and 0
OddHeaders == {<<8, 2, 5>>, <<1, 2, 5>>}

Headers == {<<l[1], l[2], t>> : l \in Layouts, t \in Totals} \cup OddHeaders

\* first-value bytes of the page headers tried (zig-zag: 3 is -2)
FirstBytes == {3}

\* bytes after the page header: min-deltas 0, -1 and +1, widths 0..2, and
\* any group bits
BodyBytes == {0, 1, 2}

\* bytes of the short bodies that hold a 128: an unfinished or two-byte
\* varint, a width with no unpacker
BadBodyBytes == {0, 1, 128}

\* whole first blocks of a layout of 8 values a block: min-delta -1 and
\* one width of 0, so no group bytes
FirstBlocks == {<<1, 0>>}

\* bytes of what follows a whole first block: min-deltas 0 and +1, widths 0
\* and 2, an unfinished varint
TailBytes == {0, 2, 128}

\* bytes of the payloads too short to hold a page header
ShortBytes == {0, 8, 128}

Bodies ==
  SeqsUpTo(BodyBytes, MaxBody) \cup SeqsUpTo(BadBodyBytes, MaxBadBody)
    \cup {b \o t : b \in FirstBlocks, t \in SeqsUpTo(TailBytes, MaxTail)}

\* payloads whose miniblocks hold 4 values: two widths of 1 and one group
\* byte; a total of 5, and a total of 9 with a second group byte
OddStreams == { <<8, 2, 5, 3, 0, 1, 1, 1>>, <<8, 2, 9, 3, 0, 1, 1, 1, 1>> }

DeltaInputs ==
  { <<h[1], h[2], h[3], f>> \o b :
       h \in Headers, f \in FirstBytes, b \in Bodies }
  \cup OddStreams
  \cup SeqsUpTo(ShortBytes, MaxShort)

\* the int64 values of the plain payloads: 0, 1, -2, and a word whose
\* eight bytes all differ
PlainValues == {Zero64, <<1, 0, 0, 0>>, Small64(-2), <<513, 1027, 1541, 34823>>}

\* the int64 values of the dictionary pages
DictValues == {<<1, 0, 0, 0>>, Small64(-2)}

Prefixes(s) == {SubSeq(s, 1, k) : k \in 0..Len(s)}

\* the delta payloads of the dispatch runs: one page header, every body
DispatchDeltaInputs == { <<8, 1, 5>> \o <<f>> \o b : f \in FirstBytes, b \in Bodies }

\* the dictionary of the dispatch runs
DispatchTable == << <<1, 0, 0, 0>>, Small64(-2) >>

\* ------------------------------------------------------------------------
\* State
\* ------------------------------------------------------------------------
VARIABLES
  kind,    \* which decoder this is: "delta", "plain" or "dict"
  phase,   \* "new", "ready", "failed" (init returned an error), "dead" (panic)
  data,    \* the payload given to init / initValues
  delta,   \* the int64DeltaBinaryPackedDecoder
  plain,   \* the int64PlainDecoder
  dict,    \* the int64DictDecoder
  last,    \* the last call: "none", "init", "decode" (the decoder's
           \* decodeInt64), or the destination shape of a decodeInt64(d, dst)
  ret,     \* what the last call returned
  dst,     \* the destination of the last decodeInt64 call, after the call
  out,     \* every value written to a destination so far, in order
  slack,   \* the destination slots the decodeInt64 calls left unwritten
  layout,  \* delta: the groups of the payload that are laid out whole
  events,  \* delta: the steps of the decodeInt64 calls so far, in order
  orig,    \* plain: the values the payload was laid out from
  keys     \* dict: what the key decoder returned to the last call

vars == <<kind, phase, data, delta, plain, dict, last, ret, dst, out, slack,
          layout, events, orig, keys>>

\* the sum of the destination lengths of the decodeInt64 calls so far
Asked == Len(out) + slack

NoKeys == [keys |-> <<>>, err |-> Nil]

InitCommon ==
  /\ phase = "new"
  /\ delta = ZeroDelta
  /\ plain = ZeroPlain
  /\ dict = ZeroDict
  /\ last = "none"
  /\ ret = Nil
  /\ dst = <<>>
  /\ out = <<>>
  /\ slack = 0
  /\ events = <<>>
  /\ keys = NoKeys

InitDelta ==
  /\ kind = "delta"
  /\ data \in DeltaInputs
  /\ layout = RefGroups(data)
  /\ orig = <<>>
  /\ InitCommon

InitPlain ==
  /\ kind = "plain"
  /\ orig \in SeqsUpTo(PlainValues, MaxPlainValues)
  /\ data \in Prefixes(EncodePlain(orig))
  /\ layout = <<>>
  /\ InitCommon

InitDict ==
  /\ kind = "dict"
  /\ orig \in SeqsUpTo(DictValues, MaxDictCount)
  /\ data \in Prefixes(EncodePlain(orig))
  /\ layout = <<>>
  /\ InitCommon

InitDispatch ==
  /\ \/ /\ kind = "delta"
        /\ data \in DispatchDeltaInputs
        /\ layout = RefGroups(data)
        /\ orig = <<>>
     \/ /\ kind = "plain"
        /\ orig \in SeqsUpTo(PlainValues, MaxPlainValues)
        /\ data \in Prefixes(EncodePlain(orig))
        /\ layout = <<>>
     \/ /\ kind = "dict"
        /\ orig = DispatchTable
        /\ data \in Prefixes(EncodePlain(orig))
        /\ layout = <<>>
  /\ InitCommon

PhaseAfter(err) ==
  IF err = Nil THEN "ready" ELSE IF err = Panic THEN "dead" ELSE "failed"

\* ------------------------------------------------------------------------
\* Actions
\* ------------------------------------------------------------------------
DeltaInitCall ==
  /\ kind = "delta" /\ phase = "new"
  /\ LET r == DeltaInit(delta, data)
     IN  /\ delta' = r.d
         /\ ret' = r.err
         /\ phase' = PhaseAfter(r.err)
  /\ events' = evInit(delta, data)
  /\ last' = "init"
  /\ UNCHANGED <<kind, data, plain, dict, dst, out, slack, layout, orig, keys>>

DeltaDecodeCall ==
  /\ kind = "delta" /\ phase = "ready"
  /\ \E L \in 0..MaxDst :
       LET r == DeltaDecodeInt64(delta, data, L)
       IN  /\ slack + (L - r.n) <= MaxSlack
           /\ delta' = r.d
           /\ ret' = r.err
           /\ dst' = r.dst
           /\ out' = out \o SubSeq(r.dst, 1, r.n)
           /\ slack' = slack + (L - r.n)
           /\ events' = events \o deltaEvents(delta, data, 0, L)
                                \o evError(r.d, r.err)
           /\ phase' = IF r.err = Panic THEN "dead" ELSE "ready"
  /\ last' = "decode"
  /\ UNCHANGED <<kind, data, plain, dict, layout, orig, keys>>

PlainInitCall ==
  /\ kind = "plain" /\ phase = "new"
  /\ LET r == PlainInit(plain, data)
     IN  /\ plain' = r.p
         /\ ret' = r.err
         /\ phase' = PhaseAfter(r.err)
  /\ last' = "init"
  /\ UNCHANGED <<kind, data, delta, dict, dst, out, slack, layout, events, orig, keys>>

PlainDecodeCall ==
  /\ kind = "plain" /\ phase = "ready"
  /\ \E L \in 0..MaxDst :
       LET r == PlainDecodeInt64(plain, data, L)
       IN  /\ slack + (L - r.n) <= MaxSlack
           /\ plain' = r.p
           /\ ret' = r.err
           /\ dst' = r.dst
           /\ out' = out \o SubSeq(r.dst, 1, r.n)
           /\ slack' = slack + (L - r.n)
  /\ last' = "decode"
  /\ UNCHANGED <<kind, phase, data, delta, dict, layout, events, orig, keys>>

DictInitCall ==
  /\ kind = "dict" /\ phase = "new"
  /\ \E count \in 0..MaxDictCount :
       LET r == DictInitValues(dict, data, count)
       IN  /\ dict' = r.dd
           /\ ret' = r.err
           /\ phase' = PhaseAfter(r.err)
  /\ last' = "init"
  /\ UNCHANGED <<kind, data, delta, plain, dst, out, slack, layout, events, orig, keys>>

DictDecodeCall ==
  /\ kind = "dict" /\ phase = "ready"
  /\ \E L \in 0..MaxDst :
       /\ Asked + L <= MaxDictAsked
       /\ \E kr \in DecodeKeysResults(L) :
            LET r == DictDecodeInt64(dict, kr, L)
            IN  /\ keys' = kr
                /\ ret' = r.err
                /\ dst' = r.dst
                /\ out' = out \o SubSeq(r.dst, 1, r.n)
                /\ dict' = r.dd
                /\ slack' = slack + (L - r.n)
                /\ phase' = IF r.err = Panic THEN "dead" ELSE "ready"
  /\ last' = "decode"
  /\ UNCHANGED <<kind, data, delta, plain, layout, events, orig>>

\* decode(dst) of the delta decoder: decodeInt64(d, dst)
DeltaDispatchCall ==
  /\ kind = "delta" /\ phase = "ready"
  /\ \E L \in 0..MaxDst, shape \in DstShapes :
       LET r == DeltaDecodeInt64(delta, data, L)
       IN  /\ slack + (L - dispatchN(shape, r)) <= MaxSlack
           /\ delta' = IF shape = "invalid" THEN delta ELSE r.d
           /\ ret' = dispatchErr(shape, r)
           /\ dst' = dispatchDst(shape, r, L)
           /\ out' = out \o SubSeq(r.dst, 1, dispatchN(shape, r))
           /\ slack' = slack + (L - dispatchN(shape, r))
           /\ events' = IF shape = "invalid" THEN events
                         ELSE events \o deltaEvents(delta, data, 0, L)
                                     \o evError(r.d, r.err)
           /\ phase' = IF dispatchErr(shape, r) = Panic THEN "dead" ELSE "ready"
           /\ last' = shape
  /\ UNCHANGED <<kind, data, plain, dict, layout, orig, keys>>

\* decode(dst) of the plain decoder
PlainDispatchCall ==
  /\ kind = "plain" /\ phase = "ready"
  /\ \E L \in 0..MaxDst, shape \in DstShapes :
       LET r == PlainDecodeInt64(plain, data, L)
       IN  /\ slack + (L - dispatchN(shape, r)) <= MaxSlack
           /\ plain' = IF shape = "invalid" THEN plain ELSE r.p
           /\ ret' = dispatchErr(shape, r)
           /\ dst' = dispatchDst(shape, r, L)
           /\ out' = out \o SubSeq(r.dst, 1, dispatchN(shape, r))
           /\ slack' = slack + (L - dispatchN(shape, r))
           /\ phase' = IF dispatchErr(shape, r) = Panic THEN "dead" ELSE "ready"
           /\ last' = shape
  /\ UNCHANGED <<kind, data, delta, dict, layout, events, orig, keys>>

\* decode(dst) of the dictionary decoder
DictDispatchCall ==
  /\ kind = "dict" /\ phase = "ready"
  /\ \E L \in 0..MaxDst, shape \in DstShapes :
       /\ Asked + L <= MaxDictAsked
       /\ \E kr \in DecodeKeysResults(L) :
            LET r == DictDecodeInt64(dict, kr, L)
            IN  /\ keys' = IF shape = "invalid" THEN NoKeys ELSE kr
                /\ dict' = IF shape = "invalid" THEN dict ELSE r.dd
                /\ ret' = dispatchErr(shape, r)
                /\ dst' = dispatchDst(shape, r, L)
                /\ out' = out \o SubSeq(r.dst, 1, dispatchN(shape, r))
                /\ slack' = slack + (L - dispatchN(shape, r))
                /\ phase' = IF dispatchErr(shape, r) = Panic THEN "dead" ELSE "ready"
                /\ last' = shape
  /\ UNCHANGED <<kind, data, delta, plain, layout, events, orig>>

NextDelta == DeltaInitCall \/ DeltaDecodeCall
NextPlain == PlainInitCall \/ PlainDecodeCall
NextDict == DictInitCall \/ DictDecodeCall

SpecDelta == InitDelta /\ [][NextDelta]_vars
SpecPlain == InitPlain /\ [][NextPlain]_vars
SpecDict == InitDict /\ [][NextDict]_vars

\* the two decoders that keep a cursor of their own
InitCursors == InitDelta \/ InitPlain
NextCursors == NextDelta \/ NextPlain
SpecCursors == InitCursors /\ [][NextCursors]_vars

NextDispatch ==
  \/ DeltaInitCall \/ PlainInitCall \/ DictInitCall
  \/ DeltaDispatchCall \/ PlainDispatchCall \/ DictDispatchCall
SpecDispatch == InitDispatch /\ [][NextDispatch]_vars

Init == InitDelta \/ InitPlain \/ InitDict
Next == NextDelta \/ NextPlain \/ NextDict
Spec == Init /\ [][Next]_vars

\* ------------------------------------------------------------------------
\* Claims
\* ------------------------------------------------------------------------

\* C2: the number of values a delta decoder has produced never exceeds the
\* header's total value count, and every value written to a destination is
\* one of those: nothing of the last group beyond the total is written.
C2_ProducedAtMostTotal ==
  kind = "delta" =>
    /\ delta.i <= delta.numValues
    /\ Len(out) = delta.i

\* C2 witness: a total that is not a multiple of 8 has been produced in
\* full, and a further call has been made on the exhausted decoder.
C2_Witness ==
  /\ kind = "delta" /\ last = "decode"
  /\ delta.numValues % 8 # 0
  /\ delta.i = delta.numValues
  /\ Len(out) = delta.numValues
  /\ Len(dst) > 0 /\ Written(dst) = 0

\* C3: the first value produced is the page header's first value, and each
\* later value is the previous one plus the raw delta stored for the previous
\* index (its slot in the 8-value group, in stream order) plus the min-delta
\* of the block of that delta; with width 0 the step is the min-delta alone,
\* so a negative min-delta decreases the value by exactly its magnitude and
\* min-delta 0 keeps it constant.
C3_ValueReconstruction ==
  kind = "delta" =>
    /\ Len(out) >= 1 => out[1] = RefHeader(data).first
    /\ LET gs == layout
       IN  \A k \in 1..(Len(out) - 1) :
             LET j == k - 1
             IN  (j \div 8) + 1 <= Len(gs) =>
                   LET gr == gs[(j \div 8) + 1]
                   IN  /\ out[k + 1] =
                            Add64(out[k], Add64(RefDelta(data, gr, j), gr.md))
                       /\ gr.w = 0 => out[k + 1] = Add64(out[k], gr.md)
                       /\ (gr.w = 0 /\ IsNeg64(gr.md)) =>
                            Add64(out[k + 1], Neg64(gr.md)) = out[k]
                       /\ (gr.w = 0 /\ gr.md = Zero64) => out[k + 1] = out[k]

\* C3 witness: a whole well-formed stream has been decoded across two blocks,
\* with a negative min-delta and width 0 in the first block.
C3_Witness ==
  /\ kind = "delta"
  /\ WellFormed(data, layout)
  /\ Len(out) = delta.numValues /\ Len(out) > 8
  /\ delta.blockSize = 8
  /\ LET gs == layout
     IN  /\ gs[1].w = 0 /\ IsNeg64(gs[1].md)
         /\ out[2] # out[1]

\* C5: a call with a nonempty destination on a delta decoder that has
\* produced its total fails with the no-more-data error, writes no slot and
\* leaves the decoder as it was.
C5_ExhaustedCallFails ==
  [][ ( /\ kind = "delta" /\ phase = "ready"
        /\ delta.i = delta.numValues
        /\ last' = "decode" /\ Len(dst') >= 1
        /\ Asked' # Asked )
      => ( /\ ret' = ErrNoMoreData
           /\ Written(dst') = 0
           /\ out' = out
           /\ delta' = delta ) ]_vars

\* C5 witness: two calls in a row have failed on an exhausted decoder that
\* had produced a positive total.
C5_Witness ==
  /\ kind = "delta" /\ last = "decode"
  /\ delta.numValues > 0 /\ delta.i = delta.numValues
  /\ ret = ErrNoMoreData /\ Len(dst) >= 1
  /\ slack >= 2

\* C6 (as claimed): a call made while fewer than the total have been
\* produced never returns the no-more-data error, whatever the destination
\* length, 0 included.
C6_NoMoreDataOnlyWhenExhausted ==
  [][ ( /\ kind = "delta" /\ phase = "ready"
        /\ delta.i < delta.numValues
        /\ last' = "decode" )
      => ret' # ErrNoMoreData ]_vars

\* C7: on a well-formed stream a call with L >= 1 slots made when p < N
\* values have been produced succeeds and writes exactly min(L, N - p)
\* values, into the first slots of the destination.
C7_WritesMinOfRoomAndRest ==
  [][ ( /\ kind = "delta" /\ phase = "ready"
        /\ WellFormed(data, layout)
        /\ delta.i < delta.numValues
        /\ last' = "decode" /\ Len(dst') >= 1
        /\ Asked' # Asked )
      => ( /\ ret' = Nil
           /\ WrittenPrefix(dst', Min(Len(dst'), delta.numValues - delta.i))
           /\ delta'.i = delta.i + Min(Len(dst'), delta.numValues - delta.i)
           /\ out' = out \o SubSeq(dst', 1, Min(Len(dst'), delta.numValues - delta.i)) ) ]_vars

\* C7 witness: a successful call on a well-formed stream wrote fewer values
\* than its destination had room for.
C7_Witness ==
  /\ kind = "delta" /\ last = "decode"
  /\ WellFormed(data, layout)
  /\ ret = Nil
  /\ Written(dst) >= 1 /\ Written(dst) < Len(dst)
  /\ delta.i = delta.numValues

\* the decoder state the chunking claim names
Core(d) == <<d.pos, d.i, d.value, d.miniBlock, d.minDelta>>

\* the decoder right after init, and after one call that asks for k values
AfterInit(buf) == DeltaInit(ZeroDelta, buf).d
AfterOneCall(buf, k) ==
  IF k = 0 THEN [d |-> AfterInit(buf), dst |-> <<>>, n |-> 0, err |-> Nil]
  ELSE DeltaDecodeInt64(AfterInit(buf), buf, k)

\* C1 (as claimed): for a stream accepted by init, calls whose destination
\* lengths sum to the total N write, concatenated, what a single call with a
\* destination of length N writes, and the decoder state after the calls have
\* produced k values is the state a single call for k values leaves.  (Calls
\* of length 0 change neither the sum nor the decoder.)
C1_ChunkingIndependence ==
  (kind = "delta" /\ phase = "ready") =>
    /\ Asked = delta.numValues =>
         LET one == AfterOneCall(data, delta.numValues)
         IN  out = SubSeq(one.dst, 1, one.n)
    /\ ret = Nil => Core(delta) = Core(AfterOneCall(data, delta.i).d)

\* C4 (as claimed): when the key decoder returns a key that is not below the
\* table length, decodeInt64 returns an error value to its caller.
C4_DictKeyOutOfRange ==
  ( /\ kind = "dict" /\ last = "decode"
    /\ keys.err = Nil
    /\ \E k \in 1..Len(keys.keys) : keys.keys[k] >= Len(dict.values) )
  => ret \notin {Nil, Panic}

\* C8: when the payload is the plain layout of a sequence of values and the
\* destination lengths of the calls sum to the number of values, the values
\* written are that sequence, in order, and the cursor is at the buffer end.
C8_PlainRoundTrip ==
  ( /\ kind = "plain" /\ phase = "ready"
    /\ data = EncodePlain(orig)
    /\ Asked = Len(orig) )
  => /\ out = orig
     /\ plain.pos = Len(data)

\* C8 witness: two values, the first with eight different bytes, have been
\* read back by two calls of length 1.
C8_Witness ==
  /\ kind = "plain" /\ last = "decode"
  /\ data = EncodePlain(orig)
  /\ Len(orig) = 2 /\ Asked = 2 /\ Len(dst) = 1
  /\ orig[1] = <<513, 1027, 1541, 34823>>
  /\ out = orig

\* the whole values left in the buffer of the plain decoder
PlainLeft(p, buf) == (Len(buf) - p.pos) \div 8

\* C9: a call of the plain decoder fills slots while whole values are left;
\* at the first slot it cannot fill it fails, with errNED when the cursor is
\* at the buffer end and with the not-enough-bytes error when 1 to 7 bytes
\* are left; it returns success only with every slot filled.
C9_PlainErrors ==
  [][ ( /\ kind = "plain" /\ phase = "ready"
        /\ last' = "decode" /\ Len(dst') >= 1
        /\ Asked' # Asked )
      => LET left == PlainLeft(plain, data)
             rest == Len(data) - plain.pos - 8 * left
         IN  /\ WrittenPrefix(dst', Min(Len(dst'), left))
             /\ (Len(dst') <= left) => ret' = Nil
             /\ (Len(dst') > left /\ rest = 0) => ret' = errNED
             /\ (Len(dst') > left /\ rest \in 1..7) => ret' = ErrPlainShort
             /\ ret' = Nil => Written(dst') = Len(dst') ]_vars

\* C9 witness: after the buffer has been consumed, a further call of
\* length 1 has failed with errNED and written nothing.
C9_Witness ==
  /\ kind = "plain" /\ last = "decode"
  /\ Len(out) >= 1 /\ plain.pos = Len(data)
  /\ Len(dst) = 1 /\ Written(dst) = 0
  /\ ret = errNED

\* C10 (as claimed): the byte cursor of the plain decoder and of the delta
\* decoder is never negative and never beyond the buffer length.
C10_CursorWithinBuffer ==
  /\ kind = "plain" => (0 <= plain.pos /\ plain.pos <= Len(data))
  /\ kind = "delta" => (0 <= delta.pos /\ delta.pos <= Len(data))

\* the block size of a page header is not a whole number of miniblocks
Uneven(h) == h.mb = 0 \/ h.bs % h.mb # 0

\* C11 (as claimed): once init has been called on a payload whose page header
\* is whole and whose block size is not evenly divisible by its miniblock
\* count (a count of 0 included), init has returned an error: the decoder is
\* neither usable for decodeInt64 nor aborted.
C11_RejectsUnevenLayout ==
  ( /\ kind = "delta" /\ last # "none"
    /\ RefHeader(data).ok
    /\ Uneven(RefHeader(data)) )
  => phase = "failed"

\* the bytes of a block header read at cursor pos: the min-delta varint and
\* one width byte for each of mb miniblocks; 0 when the varint is not whole
BlockHeaderLen(buf, pos, mb) ==
  IF zigZagVarInt64(Suffix(buf, pos)).n <= 0 THEN 0
  ELSE zigZagVarInt64(Suffix(buf, pos)).n + mb

\* the block header read at cursor pos extends past the end of the buffer
BlockHeaderMissing(buf, pos, mb) ==
  \/ BlockHeaderLen(buf, pos, mb) = 0
  \/ pos + BlockHeaderLen(buf, pos, mb) > Len(buf)

\* decoder d is about to read a block header: at a miniblock boundary with
\* the miniblocks of the block used up
NeedsBlockHeader(d) ==
  d.i % 8 = 0 /\ AtMiniBlockStart(d) /\ d.miniBlock >= d.miniBlocks

\* the cursor at which decoder d unpacks its next group
NextGroupPos(d, buf) ==
  IF NeedsBlockHeader(d)
    THEN d.pos + BlockHeaderLen(buf, d.pos, d.miniBlocks)
    ELSE d.pos

\* the width at which decoder d unpacks its next group
NextGroupWidth(d, buf) ==
  IF NeedsBlockHeader(d)
    THEN buf[d.pos + BlockHeaderLen(buf, d.pos, d.miniBlocks)
               - d.miniBlocks + 1]
  ELSE IF AtMiniBlockStart(d) THEN d.miniBlockWidths[d.miniBlock + 1]
  ELSE d.miniBlockWidth

\* what decoder d needs before its next value extends past the buffer end
NextBytesMissing(d, buf) ==
  /\ d.i % 8 = 0 /\ d.i < d.numValues
  /\ IF NeedsBlockHeader(d) /\ BlockHeaderMissing(buf, d.pos, d.miniBlocks)
       THEN TRUE
       ELSE NextGroupPos(d, buf) + NextGroupWidth(d, buf) > Len(buf)

\* C12 (as claimed): init returns an error when the first block header
\* extends past the end of the buffer, and a decodeInt64 call with a nonempty
\* destination made when the next block header or the next 8-value group
\* extends past the end returns an error and writes no slot.
C12_TruncationDetected ==
  [][ /\ ( /\ kind = "delta" /\ last' = "init"
           /\ RefHeader(data).ok
           /\ BlockHeaderMissing(data, RefHeader(data).len, RefHeader(data).mb) )
         => ret' \notin {Nil, Panic}
      /\ ( /\ kind = "delta" /\ phase = "ready"
           /\ last' = "decode" /\ Len(dst') >= 1
           /\ NextBytesMissing(delta, data) )
         => ( ret' \notin {Nil, Panic} /\ Written(dst') = 0 ) ]_vars

\* every slot the typed run t wrote holds the same value in destination u
SameWrittenSlots(t, u) ==
  /\ Len(u) = Len(t)
  /\ \A k \in 1..Len(t) : t[k] # Untouched => u[k] = t[k]

\* C13 (as claimed): a decodeInt64(d, dst) call with a dynamically-typed
\* destination of length L leaves the decoder in the state, returns the error
\* and stores in every slot the decoder wrote the value that the decoder's
\* decodeInt64 on a typed destination of length L gives from the same state.
C13_DispatchEquivalence ==
  [][ /\ (kind = "delta" /\ last' = "dynamic") =>
           /\ delta' = DeltaDecodeInt64(delta, data, Len(dst')).d
           /\ ret' = DeltaDecodeInt64(delta, data, Len(dst')).err
           /\ SameWrittenSlots(DeltaDecodeInt64(delta, data, Len(dst')).dst, dst')
      /\ (kind = "plain" /\ last' = "dynamic") =>
           /\ plain' = PlainDecodeInt64(plain, data, Len(dst')).p
           /\ ret' = PlainDecodeInt64(plain, data, Len(dst')).err
           /\ SameWrittenSlots(PlainDecodeInt64(plain, data, Len(dst')).dst, dst')
      /\ (kind = "dict" /\ last' = "dynamic") =>
           /\ dict' = DictDecodeInt64(dict, keys', Len(dst')).dd
           /\ ret' = DictDecodeInt64(dict, keys', Len(dst')).err
           /\ SameWrittenSlots(DictDecodeInt64(dict, keys', Len(dst')).dst, dst')
    ]_vars

\* C14: a decodeInt64 call of the dictionary decoder never changes the value
\* table, and when the key decoder reports an error the call returns that
\* error and writes no slot of the destination.
C14_KeyErrorPropagated ==
  [][ (kind = "dict" /\ phase = "ready" /\ last' = "decode") =>
        /\ dict'.values = dict.values
        /\ dict'.numValues = dict.numValues
        /\ keys'.err # Nil =>
             /\ ret' = keys'.err
             /\ Written(dst') = 0
             /\ out' = out ]_vars

\* C14 witness: after a call that wrote values from a table of two values,
\* a call with a nonempty destination has returned the key decoder's error
\* and written nothing.
C14_Witness ==
  /\ kind = "dict" /\ last = "decode"
  /\ Len(dict.values) = 2 /\ dict.values = orig
  /\ Len(out) >= 1
  /\ keys.err = ErrKeys /\ ret = ErrKeys
  /\ Len(dst) >= 1 /\ Written(dst) = 0

IsHeader(ev) == ev.e = "header"
IsSelect(ev) == ev.e = "select"

\* the places of the block header reads in the steps evs
HeaderPlaces(evs) == {k \in 1..Len(evs) : IsHeader(evs[k])}

\* k1 < k2 are two block header reads with none between them
NextHeaders(evs, k1, k2) ==
  /\ k1 \in HeaderPlaces(evs) /\ k2 \in HeaderPlaces(evs) /\ k1 < k2
  /\ \A k \in HeaderPlaces(evs) : ~(k1 < k /\ k < k2)

\* the miniblock selections among the steps k1+1 .. k2
SelectsIn(evs, k1, k2) == SelectSeq(SubSeq(evs, k1 + 1, k2), IsSelect)

\* the width byte of miniblock m (from 0) in the block header read at cursor
\* pos; -1 when the byte is not in the buffer
HeaderWidth(buf, pos, mb, m) ==
  IF BlockHeaderMissing(buf, pos, mb) THEN -1
  ELSE buf[pos + BlockHeaderLen(buf, pos, mb) - mb + m + 1]

\* the selections ss made after the block header read hd are the first
\* miniblocks of that block, in the order of the widths of its header
InHeaderOrder(buf, hd, ss, mb) ==
  /\ Len(ss) <= mb
  /\ \A m \in 1..Len(ss) :
       /\ ss[m].a = m - 1
       /\ ss[m].c = HeaderWidth(buf, hd.b, mb, m - 1)

\* C15 (as claimed): for a page header with a whole number of miniblocks of
\* whole 8-value groups, the first step is the block header read of init;
\* every other block header read is made at a produced count that is a
\* positive multiple of the block size and below the total; every value
\* produced at such a count had its read; and after each read the miniblocks
\* are selected in the order of its widths, all of them before the next read.
C15_BlockHeaderOrdering ==
  ( /\ kind = "delta" /\ last # "none"
    /\ ValidLayout(RefHeader(data)) )
  => /\ events # <<>> /\ IsHeader(events[1]) /\ events[1].i = 0
     /\ \A k \in HeaderPlaces(events) \ {1} :
          /\ events[k].i > 0
          /\ events[k].i % delta.blockSize = 0
          /\ events[k].i < delta.numValues
     /\ \A j \in 1..(Len(out) - 1) :
          j % delta.blockSize = 0 =>
            \E k \in HeaderPlaces(events) \ {1} : events[k].i = j
     /\ \A k1 \in HeaderPlaces(events) :
          /\ InHeaderOrder(data, events[k1],
                           SelectsIn(events, k1, Len(events)),
                           delta.miniBlocks)
               \/ \E k2 \in HeaderPlaces(events) : k1 < k2
          /\ \A k2 \in HeaderPlaces(events) :
               NextHeaders(events, k1, k2) =>
                 /\ Len(SelectsIn(events, k1, k2)) = delta.miniBlocks
                 /\ InHeaderOrder(data, events[k1],
                                  SelectsIn(events, k1, k2),
                                  delta.miniBlocks)

IsSkip(ev) == ev.e = "skip"
IsUnpack(ev) == ev.e = "unpack"

\* the bytes of a miniblock of mbs values at width w: whole 8-value groups of
\* w bytes each
MiniBlockBytes(mbs, w) == ((mbs + 7) \div 8) * w

\* C16 (as claimed): the tail-padding skip is made at most once in the life
\* of a decoder; it is made right after the unpacking of a group that starts
\* fewer than 8 values or exactly 8 values before the total; it moves the cursor
\* from the end of that group by (miniBlockSize/8) * width minus the bytes
\* consumed in the miniblock, to the end of the miniblock; and no group is
\* unpacked after it.
C16_TailSkipOnce ==
  kind = "delta" =>
    /\ Len(SelectSeq(events, IsSkip)) <= 1
    /\ \A k \in 1..Len(events) :
         IsSkip(events[k]) =>
           /\ events[k].i + 8 >= delta.numValues
           /\ k > 1 /\ IsUnpack(events[k - 1]) /\ events[k - 1].i = events[k].i
           /\ events[k].b - (events[k - 1].a + events[k].c) =
                (delta.miniBlockSize \div 8) * events[k].c
                  - (events[k - 1].a + events[k].c - events[k].a)
           /\ events[k].b =
                events[k].a + MiniBlockBytes(delta.miniBlockSize, events[k].c)
           /\ \A m \in (k + 1)..Len(events) : ~IsUnpack(events[m])

\* C17: every decodeInt64 call of the delta decoder, failing or not, writes a
\* prefix of its destination and raises the produced count by the number of
\* slots written; every decodeInt64 call of the plain decoder writes a prefix
\* of its destination and advances the byte cursor by 8 for each slot written.
C17_CursorAdvance ==
  [][ (phase = "ready" /\ last' = "decode") =>
        /\ kind = "delta" =>
             /\ delta'.i - delta.i = Written(dst')
             /\ WrittenPrefix(dst', delta'.i - delta.i)
             /\ Len(out') - Len(out) = delta'.i - delta.i
        /\ kind = "plain" =>
             /\ plain'.pos - plain.pos = 8 * Written(dst')
             /\ WrittenPrefix(dst', Written(dst'))
             /\ Len(out') - Len(out) = Written(dst') ]_vars

\* C17 witness: a call of the delta decoder has written some slots of its
\* destination, but not all, and failed on a block header or group cut
\* short; the produced count stands at the number of values written so far.
C17_Witness ==
  /\ kind = "delta" /\ last = "decode"
  /\ ret \in TruncationErrors
  /\ Written(dst) >= 1 /\ Written(dst) < Len(dst)
  /\ delta.i = Len(out) /\ delta.i < delta.numValues

IsError(ev) == ev.e = "error"

\* a decodeInt64 call of this decoder has returned a truncation or block
\* header error
HasFailed == \E k \in 1..Len(events) : IsError(events[k])

\* C18 (as claimed): once a decodeInt64 call of a delta decoder has returned
\* a truncation or block header error, every later decodeInt64 call with a
\* nonempty destination fails too and writes no value.
C18_ErrorsAreSticky ==
  [][ ( /\ kind = "delta" /\ phase = "ready"
        /\ HasFailed
        /\ last' = "decode" /\ Len(dst') >= 1 )
      => ( ret' # Nil /\ Written(dst') = 0 /\ out' = out ) ]_vars

\* init has returned nil on this decoder
InitSucceeded == phase = "ready" \/ (phase = "dead" /\ last # "init")

\* C19: once init has succeeded with a miniblock count of at least 1, the
\* miniblock index is between 0 and the miniblock count, the width table has
\* one entry for each miniblock, and every index with which a width was
\* selected was below the miniblock count, calls after failed calls included.
C19_MiniBlockIndexBound ==
  (kind = "delta" /\ InitSucceeded /\ delta.miniBlocks >= 1) =>
    /\ 0 <= delta.miniBlock /\ delta.miniBlock <= delta.miniBlocks
    /\ Len(delta.miniBlockWidths) = delta.miniBlocks
    /\ \A k \in 1..Len(events) :
         IsSelect(events[k]) =>
           /\ 0 <= events[k].a
           /\ events[k].a < delta.miniBlocks
           /\ events[k].a < events[k].b

\* C19 witness: a call has failed, and a later call has selected the last
\* miniblock of a block of two, so that the index stands at the count.
C19_Witness ==
  /\ kind = "delta" /\ phase = "ready"
  /\ delta.miniBlocks = 2 /\ delta.miniBlock = 2
  /\ \E k \in 1..Len(events) :
       /\ IsError(events[k])
       /\ \E m \in (k + 1)..Len(events) :
            IsSelect(events[m]) /\ events[m].a = 1

====
